---- MODULE Spec2Model ----
(***************************************************************************)
(* ESP32 upload server (src/app.js): POST /upload and GET /images, with    *)
(* the object storage (Cloudinary), the metadata store (MongoDB through    *)
(* Mongoose) and the messaging bot (Telegram) as collaborators whose calls *)
(* return or fail nondeterministically.                                    *)
(***************************************************************************)
EXTENDS Integers, Sequences, FiniteSets, TLC

(* ------------------------------ bounds --------------------------------- *)
\* upload requests of one run
MaxRequests == 2
\* longest `limit` query string of GET /images
MaxLen == 3
\* records of a metadata store GET /images is run against
MaxRecords == 2

(* ------------------------- program constants --------------------------- *)
\* Math.min(100, ...)
MaxLimit == 100
\* the radix of parseInt(..., 10)
Radix == 10
\* req.query.limit || "20"
DefaultLimit == <<"2", "0">>
\* process.env.DEVICE_API_KEY, the configured secret
DEVICE_API_KEY == "secret123"
\* the fallback device id
UnknownDevice == "unknown_device"

(* --------------------------- JavaScript values ------------------------- *)
Undefined == "undefined"

\* a JS number that may be NaN
Num(n) == [nan |-> FALSE, n |-> n]
NaN == [nan |-> TRUE, n |-> 0]

\* JS truthiness of a header / query / env string
Truthy(x) == x # Undefined /\ x # ""

\* a || b
Or(a, b) == IF Truthy(a) THEN a ELSE b

Requests == 1..MaxRequests

(* ------------------------------ state ---------------------------------- *)
VARIABLES
    env,       \* process.env: the messaging bot's token and chat
    req,       \* the POST /upload requests: inputs, handler position, locals, responses
    store,     \* the Image collection of the metadata store
    nUploads,  \* objects the storage service has accepted so far
    list       \* the last GET /images request and its response

vars == <<env, req, store, nUploads, list>>

(* ------------------------- ImageRecord, results ------------------------ *)
\* savedDoc = null / no upload result yet
NoDoc == [_id |-> 0, deviceId |-> Undefined, url |-> 0, public_id |-> 0,
          width |-> 0, height |-> 0, bytes |-> 0, createdAt |-> 0]
NoResult == [secure_url |-> 0, public_id |-> 0, width |-> 0, height |-> 0, bytes |-> 0]

\* what the storage service answers for its n-th accepted object: a URL and a
\* public id of its own, and the dimensions and size of the image
StorageResult(n) ==
    [secure_url |-> n, public_id |-> n, width |-> 640, height |-> 480, bytes |-> 51200]

\* mutant: the document is built without the request's device id, so the
\* schema default applies
NewImageDefaultDevice(deviceId, uploadResult, id, now) ==
    [_id |-> id, deviceId |-> "unknown_device", url |-> uploadResult.secure_url,
     public_id |-> uploadResult.public_id, width |-> uploadResult.width,
     height |-> uploadResult.height, bytes |-> uploadResult.bytes, createdAt |-> now]

\* new Image({deviceId, url, public_id, width, height, bytes}); the store
\* assigns _id, and the schema's timestamps option assigns createdAt
NewImage(deviceId, uploadResult, id, now) ==
    [_id |-> id, deviceId |-> deviceId, url |-> uploadResult.secure_url,
     public_id |-> uploadResult.public_id, width |-> uploadResult.width,
     height |-> uploadResult.height, bytes |-> uploadResult.bytes, createdAt |-> now]

Max(S) == CHOOSE x \in S : \A y \in S : y <= x

\* the newest createdAt of the store (0 when it is empty)
LastCreatedAt == Max({0} \cup {d.createdAt : d \in store})

(* ------------------------- POST /upload: parsers ----------------------- *)
\* a request body as sent: content type and payload
Bodies == {"none", "image", "imageEmpty", "imageTooLarge",
           "jsonObject", "jsonEmptyArray", "jsonMalformed", "text"}

\* app.use(express.json()): parses application/json bodies, answers 400 to a
\* malformed one, and leaves the others to the next middleware; body-parser 1.x
\* initialises req.body to {} for a body it does not parse, 2.x leaves it undefined
ExpressJson(b, v1) ==
    CASE b = "jsonMalformed"  -> [status |-> 400, body |-> Undefined, parsed |-> FALSE]
      [] b = "jsonObject"     -> [status |-> 0, body |-> "object", parsed |-> TRUE]
      [] b = "jsonEmptyArray" -> [status |-> 0, body |-> "emptyArray", parsed |-> TRUE]
      [] OTHER -> [status |-> 0, body |-> IF v1 THEN "emptyObject" ELSE Undefined,
                   parsed |-> FALSE]

\* express.raw({type: "image/*", limit: "3mb"}): reads an image/* body into a
\* Buffer, answers 413 to one over the limit, skips a body already parsed or of
\* another type
ExpressRaw(b, j) ==
    CASE j.parsed             -> j
      [] b = "imageTooLarge"  -> [status |-> 413, body |-> Undefined, parsed |-> FALSE]
      [] b = "image"          -> [status |-> 0, body |-> "buffer", parsed |-> TRUE]
      [] b = "imageEmpty"     -> [status |-> 0, body |-> "emptyBuffer", parsed |-> TRUE]
      [] OTHER                -> j

\* the middleware chain in front of the handler
ParseBody(b, v1) ==
    LET j == ExpressJson(b, v1) IN IF j.status # 0 THEN j ELSE ExpressRaw(b, j)

\* buffer.length === 0 (a plain object has no length)
LengthIsZero(buffer) == buffer \in {"emptyBuffer", "emptyArray"}

\* !buffer || buffer.length === 0
InvalidBody(buffer) == buffer = Undefined \/ LengthIsZero(buffer)

\* mutant: the check only asks for a key to be there
AuthFailsMissingOnly(apiKey) == ~Truthy(apiKey)

\* !apiKey || apiKey !== process.env.DEVICE_API_KEY
AuthFails(apiKey) == ~Truthy(apiKey) \/ apiKey # DEVICE_API_KEY

(* ------------------------- POST /upload: handler ----------------------- *)
IdleReq ==
    [pc |-> "idle", apiKeyHeader |-> Undefined, apiKeyQuery |-> Undefined,
     deviceHeader |-> Undefined, deviceQuery |-> Undefined, bodyIn |-> "none",
     deviceId |-> Undefined, buffer |-> Undefined,
     storage |-> "none", save |-> "none", notify |-> "none",
     uploadResult |-> NoResult, savedDoc |-> NoDoc, responses |-> <<>>]

\* res.status(status).json(body); the handler returns
Respond(rq, status, body) ==
    [rq EXCEPT !.pc = "done",
               !.responses = Append(@, [status |-> status, body |-> body])]

\* the response of a successful upload
ComposeResponse(uploadResult, savedDoc) ==
    LET resp == [ok |-> TRUE, url |-> uploadResult.secure_url,
                 public_id |-> uploadResult.public_id, width |-> uploadResult.width,
                 height |-> uploadResult.height, bytes |-> uploadResult.bytes]
    IN IF savedDoc # NoDoc
       THEN [k \in DOMAIN resp \cup {"imageId", "savedAt"} |->
                CASE k = "imageId" -> savedDoc._id
                  [] k = "savedAt" -> savedDoc.createdAt
                  [] OTHER -> resp[k]]
       ELSE resp

\* tgToken && tgChat
NotifyConfigured == Truthy(env.tgToken) /\ Truthy(env.tgChat)

\* the handler from the end of the metadata save to its next await or its return
AfterSave(rq) ==
    IF NotifyConfigured
    THEN [rq EXCEPT !.pc = "awaitNotify", !.notify = "pending"]
    ELSE Respond(rq, 200, ComposeResponse(rq.uploadResult, rq.savedDoc))

\* a request arrives (requests are numbered in arrival order), passes the body
\* parsers (of body-parser 1.x when v1) and runs the handler up to its first await
UploadReq(r, kh, kq, dh, dq, b, v1) ==
    /\ req[r].pc = "idle"
    /\ \A q \in Requests : q < r => req[q].pc # "idle"
    /\ LET parsed == ParseBody(b, v1)
           apiKey == Or(kh, kq)
           deviceId == Or(Or(dh, dq), UnknownDevice)
           rq == [req[r] EXCEPT !.apiKeyHeader = kh, !.apiKeyQuery = kq,
                                !.deviceHeader = dh, !.deviceQuery = dq,
                                !.bodyIn = b]
       IN req' = [req EXCEPT ![r] =
            IF parsed.status # 0
            THEN Respond(rq, parsed.status, [html |-> "error"])
            ELSE LET hq == [rq EXCEPT !.deviceId = deviceId, !.buffer = parsed.body]
                 IN IF AuthFails(apiKey)
                    THEN Respond(hq, 401, [error |-> "Unauthorized: invalid api key"])
                    ELSE IF InvalidBody(parsed.body)
                    THEN Respond(hq, 400, [error |-> "No image uploaded"])
                    ELSE [hq EXCEPT !.pc = "awaitStorage", !.storage = "pending"]]
    /\ UNCHANGED <<env, store, nUploads, list>>

\* the storage service accepts the object and calls back with its result; the
\* handler builds the Image document and calls save(). Only a Buffer can be
\* piped into the upload stream.
StorageOk(r) ==
    /\ req[r].pc = "awaitStorage"
    /\ req[r].buffer = "buffer"
    /\ nUploads' = nUploads + 1
    /\ req' = [req EXCEPT ![r] = [@ EXCEPT !.storage = "ok",
                                           !.uploadResult = StorageResult(nUploads + 1),
                                           !.save = "pending",
                                           !.pc = "awaitSave"]]
    /\ UNCHANGED <<env, store, list>>

\* mutant: the storage error is logged and the handler goes on to the save
StorageFailSwallowed(r) ==
    /\ req[r].pc = "awaitStorage"
    /\ req' = [req EXCEPT ![r] = [@ EXCEPT !.storage = "failed", !.save = "pending",
                                           !.pc = "awaitSave"]]
    /\ UNCHANGED <<env, store, nUploads, list>>

\* mutant: no outer catch, the rejection is left unhandled and nothing is sent
StorageFailUnhandled(r) ==
    /\ req[r].pc = "awaitStorage"
    /\ req' = [req EXCEPT ![r] = [@ EXCEPT !.storage = "failed", !.pc = "unhandled"]]
    /\ UNCHANGED <<env, store, nUploads, list>>

\* the storage call fails: reject(error), caught by the outer catch
StorageFail(r) ==
    /\ req[r].pc = "awaitStorage"
    /\ req' = [req EXCEPT ![r] =
                 Respond([@ EXCEPT !.storage = "failed"], 500, [error |-> "Error"])]
    /\ UNCHANGED <<env, store, nUploads, list>>

\* mutant: the save is retried after it has succeeded, and inserts a second record
SaveOkTwice(r) ==
    /\ req[r].pc = "awaitSave"
    /\ LET now == LastCreatedAt + 1
           doc == NewImage(req[r].deviceId, req[r].uploadResult,
                           Cardinality(store) + 1, now)
           again == NewImage(req[r].deviceId, req[r].uploadResult,
                             Cardinality(store) + 2, now)
       IN /\ store' = store \cup {doc, again}
          /\ req' = [req EXCEPT ![r] =
                       AfterSave([@ EXCEPT !.save = "ok", !.savedDoc = again])]
    /\ UNCHANGED <<env, nUploads, list>>

\* imgDoc.save() succeeds: the record is in the store, stamped with the
\* current time (two saves may fall into the same millisecond)
SaveOk(r) ==
    /\ req[r].pc = "awaitSave"
    /\ \E now \in {Max({1, LastCreatedAt}), LastCreatedAt + 1} :
         LET doc == NewImage(req[r].deviceId, req[r].uploadResult,
                             Cardinality(store) + 1, now)
         IN /\ store' = store \cup {doc}
            /\ req' = [req EXCEPT ![r] =
                         AfterSave([@ EXCEPT !.save = "ok", !.savedDoc = doc])]
    /\ UNCHANGED <<env, nUploads, list>>

\* mutant: the save error reaches the outer catch
SaveFailFatal(r) ==
    /\ req[r].pc = "awaitSave"
    /\ req' = [req EXCEPT ![r] =
                 Respond([@ EXCEPT !.save = "failed"], 500, [error |-> "Error"])]
    /\ UNCHANGED <<env, store, nUploads, list>>

\* imgDoc.save() fails: logged, savedDoc stays null
SaveFail(r) ==
    /\ req[r].pc = "awaitSave"
    /\ req' = [req EXCEPT ![r] = AfterSave([@ EXCEPT !.save = "failed"])]
    /\ UNCHANGED <<env, store, nUploads, list>>

\* axios.post(sendPhoto) returns
NotifyOk(r) ==
    /\ req[r].pc = "awaitNotify"
    /\ req' = [req EXCEPT ![r] =
                 Respond([@ EXCEPT !.notify = "ok"], 200,
                         ComposeResponse(@.uploadResult, @.savedDoc))]
    /\ UNCHANGED <<env, store, nUploads, list>>

\* mutant: the notification error reaches the outer catch
NotifyFailFatal(r, how) ==
    /\ req[r].pc = "awaitNotify"
    /\ req' = [req EXCEPT ![r] =
                 Respond([@ EXCEPT !.notify = how], 500, [error |-> "Error"])]
    /\ UNCHANGED <<env, store, nUploads, list>>

\* axios.post(sendPhoto) fails or runs into its 10 s timeout: logged
NotifyFail(r, how) ==
    /\ req[r].pc = "awaitNotify"
    /\ req' = [req EXCEPT ![r] =
                 Respond([@ EXCEPT !.notify = how], 200,
                         ComposeResponse(@.uploadResult, @.savedDoc))]
    /\ UNCHANGED <<env, store, nUploads, list>>

(* ------------------------------ GET /images ---------------------------- *)
\* the characters `limit` strings are made of
Chars == {"0", "1", "9", "a", "-"}

Digits == <<"0", "1", "2", "3", "4", "5", "6", "7", "8", "9">>

IsDigit(c) == \E i \in 1..Radix : Digits[i] = c

DigitValue(c) == (CHOOSE i \in 1..Radix : Digits[i] = c) - 1

\* the string without its leading white space
RECURSIVE SkipSpace(_)
SkipSpace(s) == IF s # <<>> /\ Head(s) = " " THEN SkipSpace(Tail(s)) ELSE s

\* the longest prefix of s made of digits
RECURSIVE LeadingDigits(_)
LeadingDigits(s) ==
    IF s # <<>> /\ IsDigit(Head(s)) THEN <<Head(s)>> \o LeadingDigits(Tail(s)) ELSE <<>>

\* the value of a string of digits after the value acc of the digits before it
RECURSIVE DigitsValue(_, _)
DigitsValue(s, acc) ==
    IF s = <<>> THEN acc ELSE DigitsValue(Tail(s), acc * Radix + DigitValue(Head(s)))

\* parseInt(s, 10): white space, an optional sign, then digits as far as they
\* go; NaN when there is no digit
ParseInt(s) ==
    LET t == SkipSpace(s)
        signed == t # <<>> /\ Head(t) \in {"-", "+"}
        sign == IF signed /\ Head(t) = "-" THEN -1 ELSE 1
        digits == LeadingDigits(IF signed THEN Tail(t) ELSE t)
    IN IF digits = <<>> THEN NaN ELSE Num(sign * DigitsValue(digits, 0))

\* Math.min(a, x) for a finite a
MathMin(a, x) == IF x.nan THEN NaN ELSE Num(IF x.n < a THEN x.n ELSE a)

\* a `limit` query parameter: absent, or a string
Absent == [present |-> FALSE, text |-> <<>>]
Given(text) == [present |-> TRUE, text |-> text]

\* Math.min(100, parseInt(req.query.limit || "20", 10))
EffectiveLimit(limitParam) ==
    MathMin(MaxLimit,
            ParseInt(IF limitParam.present /\ limitParam.text # <<>>
                     THEN limitParam.text ELSE DefaultLimit))

\* Image.find(filter) with filter.deviceId set when the deviceId parameter is given
Matching(deviceParam) ==
    {d \in store : Truthy(deviceParam) => d.deviceId = deviceParam}

\* .sort({createdAt: -1}): the orders of S with createdAt non-increasing (the
\* order among equal timestamps is the store's choice)
SortedDesc(S) ==
    {s \in [1..Cardinality(S) -> S] :
        /\ \A i, j \in DOMAIN s : i # j => s[i] # s[j]
        /\ \A i, j \in DOMAIN s : i < j => s[i].createdAt >= s[j].createdAt}

\* .limit(n) of a MongoDB cursor: 0 means no limit, a negative n means |n|
\* (in one batch); what a NaN limit does is not defined: a query that runs with
\* it runs without a limit
CursorLimit(s, limit) ==
    LET n == IF limit.nan THEN 0 ELSE IF limit.n < 0 THEN -limit.n ELSE limit.n
    IN IF n = 0 \/ n >= Len(s) THEN s ELSE SubSeq(s, 1, n)

NoList == [status |-> 0, limitParam |-> Absent, deviceParam |-> Undefined,
           limit |-> Num(0), images |-> <<>>]

\* GET /images answered from the store
ListImages(limitParam, deviceParam) ==
    /\ LET limit == EffectiveLimit(limitParam)
       IN \E s \in SortedDesc(Matching(deviceParam)) :
            list' = [status |-> 200, limitParam |-> limitParam,
                     deviceParam |-> deviceParam, limit |-> limit,
                     images |-> CursorLimit(s, limit)]
    /\ UNCHANGED <<env, req, store, nUploads>>

\* GET /images when the query fails: 500 {ok: false, error}
ListFails(limitParam, deviceParam) ==
    /\ list' = [status |-> 500, limitParam |-> limitParam, deviceParam |-> deviceParam,
                limit |-> EffectiveLimit(limitParam), images |-> <<>>]
    /\ UNCHANGED <<env, req, store, nUploads>>

(* --------------------------- specifications ---------------------------- *)
Envs == [tgToken : {Undefined, "token"}, tgChat : {Undefined, "chat"}]

\* the server has started: no request yet, an empty store
Init ==
    /\ env \in Envs
    /\ req = [r \in Requests |-> IdleReq]
    /\ store = {}
    /\ nUploads = 0
    /\ list = NoList

\* the uploads of the concurrent runs: an image from a named and from an
\* unnamed device, a wrong key, an empty image, an image over the size limit
Uploads ==
    {<<DEVICE_API_KEY, "esp32-1", "image">>, <<DEVICE_API_KEY, Undefined, "image">>,
     <<"wrong", "esp32-1", "image">>, <<DEVICE_API_KEY, "esp32-1", "imageEmpty">>,
     <<DEVICE_API_KEY, "esp32-1", "imageTooLarge">>}

Upload ==
    \E r \in Requests, u \in Uploads, v1 \in BOOLEAN :
        UploadReq(r, u[1], Undefined, u[2], Undefined, u[3], v1)

StorageReturns == \E r \in Requests : StorageOk(r) \/ StorageFail(r)

SaveReturns == \E r \in Requests : SaveOk(r) \/ SaveFail(r)

NotifyReturns ==
    \E r \in Requests : NotifyOk(r) \/ \E how \in {"failed", "timeout"} : NotifyFail(r, how)

List ==
    \E lp \in {Given(<<"1">>)}, dp \in {Undefined} :
        ListImages(lp, dp) \/ ListFails(lp, dp)

Next == Upload \/ StorageReturns \/ SaveReturns \/ NotifyReturns \/ List

\* concurrent uploads and listings
Spec == Init /\ [][Next]_vars

\* every collaborator call eventually returns or fails
Fairness ==
    \A r \in Requests :
        /\ WF_vars(StorageOk(r) \/ StorageFail(r))
        /\ WF_vars(SaveOk(r) \/ SaveFail(r))
        /\ WF_vars(NotifyOk(r) \/ \E how \in {"failed", "timeout"} : NotifyFail(r, how))

\* concurrent uploads whose collaborator calls return
NextUploads == Upload \/ StorageReturns \/ SaveReturns \/ NotifyReturns

FairSpec == Init /\ [][NextUploads]_vars /\ Fairness

\* one upload on its own, with every shape of key, device id and body
Keys == {Undefined, "", DEVICE_API_KEY, "wrong"}

UploadAlone ==
    \E r \in Requests, kh \in Keys, kq \in Keys,
       dh \in {Undefined, "esp32-1"}, dq \in {Undefined, "esp32-2"}, b \in Bodies,
       v1 \in BOOLEAN :
        /\ \A q \in Requests : req[q].pc = "idle"
        /\ UploadReq(r, kh, kq, dh, dq, b, v1)

NextInputs == UploadAlone \/ StorageReturns \/ SaveReturns \/ NotifyReturns

SpecInputs == Init /\ [][NextInputs]_vars

\* the `limit` strings of at most MaxLen characters
LimitParams ==
    {Absent} \cup {Given(t) : t \in UNION {[1..k -> Chars] : k \in 0..MaxLen}}

\* the metadata stores of at most MaxRecords records that uploads leave behind
Stores ==
    UNION {
      {{NewImage(dev[i], StorageResult(i), i, at[i]) : i \in 1..k} :
          dev \in [1..k -> {"esp32-1", UnknownDevice}],
          at \in {a \in [1..k -> 1..k] :
                    /\ k > 0 => a[1] = 1
                    /\ \A i \in 1..(k - 1) : a[i + 1] \in {a[i], a[i] + 1}}}
      : k \in 0..MaxRecords}

\* a server started on a store earlier uploads have filled
InitList ==
    /\ env \in Envs
    /\ req = [r \in Requests |-> IdleReq]
    /\ store \in Stores
    /\ nUploads = Cardinality(store)
    /\ list = NoList

\* one GET /images, with every shape of limit and deviceId
ListAny ==
    \E lp \in LimitParams, dp \in {Undefined, "", "esp32-1", "esp32-2"} :
        /\ list = NoList
        /\ ListImages(lp, dp) \/ ListFails(lp, dp)

NextList == ListAny

SpecList == InitList /\ [][NextList]_vars

(* ------------------------------- claims -------------------------------- *)
Done(r) == req[r].pc = "done"

Arrived(r) == req[r].pc # "idle"

\* the status of the response a request got
Status(r) == req[r].responses[1].status

Body(r) == req[r].responses[1].body

Answered(r, status) == Done(r) /\ Len(req[r].responses) = 1 /\ Status(r) = status

\* the key a request presents: header x-api-key, else query apiKey
KeyPresented(r) ==
    IF req[r].apiKeyHeader \notin {Undefined, ""}
    THEN req[r].apiKeyHeader ELSE req[r].apiKeyQuery

\* the key is missing or differs from the configured secret
BadKey(r) == KeyPresented(r) \in {Undefined, ""} \/ KeyPresented(r) # "secret123"

\* the device id a request names: header x-device-id, else query deviceId, else the default
DeviceNamed(r) ==
    IF req[r].deviceHeader \notin {Undefined, ""} THEN req[r].deviceHeader
    ELSE IF req[r].deviceQuery \notin {Undefined, ""} THEN req[r].deviceQuery
    ELSE "unknown_device"

NoCollaborator(r) ==
    req[r].storage = "none" /\ req[r].save = "none" /\ req[r].notify = "none"

\* the records of the store that hold the URL storage returned to request r
RecordsOf(r) == {d \in store : d.url = req[r].uploadResult.secure_url}

\* C1 as stated: a request with a missing or wrong API key is answered 401,
\* whatever its body, and no collaborator is invoked for it.
C1_Original ==
    \A r \in Requests : Arrived(r) /\ BadKey(r) => Answered(r, 401) /\ NoCollaborator(r)

\* C1 amended: a request with a missing or wrong API key never reaches a
\* collaborator, and is answered 401 unless a body parser in front of the
\* handler has already answered it: 413 for an image over the size limit, 400
\* for malformed JSON.
C1_Unauthorized ==
    \A r \in Requests :
        Arrived(r) /\ BadKey(r) =>
            /\ NoCollaborator(r)
            /\ Answered(r, CASE req[r].bodyIn = "imageTooLarge" -> 413
                             [] req[r].bodyIn = "jsonMalformed" -> 400
                             [] OTHER -> 401)

C1_Witness ==
    \E r \in Requests :
        /\ Answered(r, 401) /\ req[r].bodyIn = "none"
        /\ req[r].apiKeyHeader = "wrong" /\ req[r].apiKeyQuery = "secret123"

\* C2 as stated: a request with a valid key and an empty or missing body, a
\* body that was not parsed as a raw image buffer included, is answered 400 and
\* no collaborator is invoked for it.
C2_Original ==
    \A r \in Requests :
        Arrived(r) /\ ~BadKey(r) /\ req[r].bodyIn \notin {"image", "imageTooLarge"} =>
            Answered(r, 400) /\ NoCollaborator(r)

\* C3: when the storage call fails the request is answered 500 with an error
\* description, no record is created for it and no notification is attempted.
C3_StorageFailure ==
    \A r \in Requests :
        req[r].storage = "failed" =>
            /\ Answered(r, 500) /\ "error" \in DOMAIN Body(r)
            /\ req[r].save = "none" /\ req[r].notify = "none"
            /\ req[r].savedDoc = NoDoc
            /\ Cardinality(store) <= Cardinality({q \in Requests : req[q].storage = "ok"})

C3_Witness ==
    \E r \in Requests :
        req[r].storage = "failed" /\ ~BadKey(r) /\ req[r].bodyIn = "image" /\ Done(r)

\* C4: a request whose storage call succeeded is answered 200 with ok: true
\* and the url, public_id, width, height and bytes storage returned; imageId
\* and savedAt are in the response exactly when the metadata save succeeded.
C4_SuccessResponse ==
    \A r \in Requests :
        req[r].storage = "ok" =>
            /\ Done(r) <=> req[r].responses # <<>>
            /\ Done(r) =>
                /\ Answered(r, 200)
                /\ Body(r).ok
                /\ Body(r).url = req[r].uploadResult.secure_url
                /\ Body(r).public_id = req[r].uploadResult.public_id
                /\ Body(r).width = req[r].uploadResult.width
                /\ Body(r).height = req[r].uploadResult.height
                /\ Body(r).bytes = req[r].uploadResult.bytes
                /\ "imageId" \in DOMAIN Body(r) <=> req[r].save = "ok"
                /\ "savedAt" \in DOMAIN Body(r) <=> req[r].save = "ok"
                /\ req[r].save = "ok" =>
                    \E d \in store : Body(r).imageId = d._id /\ Body(r).savedAt = d.createdAt

C4_Witness ==
    \E r, q \in Requests :
        /\ Done(r) /\ req[r].storage = "ok" /\ req[r].save = "failed"
        /\ Done(q) /\ req[q].storage = "ok" /\ req[q].save = "ok"

\* C5: the notification is attempted only after storage succeeded and with
\* both the bot token and the chat configured; however it ends, the request is
\* answered as it is when notification is not configured: 200 and the body
\* made of the storage result and the saved record.
C5_Notification ==
    \A r \in Requests :
        /\ req[r].notify # "none" =>
            /\ req[r].storage = "ok"
            /\ env.tgToken # Undefined /\ env.tgChat # Undefined
        /\ Done(r) /\ req[r].notify # "none" =>
            /\ req[r].notify \in {"ok", "failed", "timeout"}
            /\ req[r].responses =
                 <<[status |-> 200,
                    body |-> ComposeResponse(req[r].uploadResult, req[r].savedDoc)]>>

C5_Witness ==
    \E r, q \in Requests :
        /\ Done(r) /\ req[r].notify = "timeout"
        /\ Done(q) /\ req[q].notify = "ok"

\* a `limit` string that is a number: digits only, after an optional minus sign
Numeric(text) ==
    LET d == IF text # <<>> /\ Head(text) = "-" THEN Tail(text) ELSE text
    IN d # <<>> /\ \A i \in DOMAIN d : IsDigit(d[i])

\* the number a numeric `limit` string writes
NumberOf(text) ==
    IF Head(text) = "-" THEN -DigitsValue(Tail(text), 0) ELSE DigitsValue(text, 0)

\* a `limit` string with no digit in it
NonNumeric(text) == text # <<>> /\ \A i \in DOMAIN text : ~IsDigit(text[i])

\* C6 as stated: the effective limit of GET /images is 20 when limit is absent,
\* 20 when it is not a number, 100 when it is a number above 100 and the number
\* given otherwise; it is never NaN.
C6_Original ==
    list.status # 0 =>
        /\ ~list.limit.nan
        /\ ~list.limitParam.present => list.limit.n = 20
        /\ list.limitParam.present /\ NonNumeric(list.limitParam.text) => list.limit.n = 20
        /\ list.limitParam.present /\ Numeric(list.limitParam.text) =>
             list.limit.n = IF NumberOf(list.limitParam.text) > 100
                            THEN 100 ELSE NumberOf(list.limitParam.text)

\* the records of the store a listing with deviceId X is about
MatchingRecords ==
    IF list.deviceParam \in {Undefined, ""} THEN store
    ELSE {d \in store : d.deviceId = list.deviceParam}

Images == {list.images[i] : i \in DOMAIN list.images}

\* C7 as stated: a successful GET /images with a numeric limit N returns at
\* most min(N, 100) records, all of the device asked for, newest first, and
\* they are the newest matching records of the store.
C7_Original ==
    list.status = 200 /\ list.limitParam.present /\ Numeric(list.limitParam.text) =>
        LET N == NumberOf(list.limitParam.text)
        IN /\ Len(list.images) <= (IF N < 100 THEN N ELSE 100)
           /\ Images \subseteq MatchingRecords
           /\ \A i, j \in DOMAIN list.images :
                i < j => /\ list.images[i] # list.images[j]
                         /\ list.images[i].createdAt >= list.images[j].createdAt
           /\ \A d \in MatchingRecords \ Images :
                \A e \in Images : d.createdAt <= e.createdAt

\* C8: every record of the store was created by an upload request with a valid
\* key and an image body whose storage call had succeeded, and holds that
\* request's storage URL and device id; a request that is unauthorized, has no
\* image, or whose storage call failed or is pending has no record.
C8_RecordsFollowStorage ==
    /\ \A d \in store :
         \E r \in Requests :
            /\ req[r].savedDoc = d
            /\ req[r].storage = "ok" /\ req[r].save = "ok"
            /\ ~BadKey(r) /\ req[r].bodyIn = "image"
            /\ d.url = req[r].uploadResult.secure_url
            /\ d.deviceId = DeviceNamed(r)
    /\ \A r \in Requests :
         BadKey(r) \/ req[r].bodyIn # "image" \/ req[r].storage # "ok" =>
            req[r].savedDoc = NoDoc /\ req[r].save = "none" /\ RecordsOf(r) = {}

C8_Witness ==
    \E r, q \in Requests :
        /\ req[r].savedDoc \in store /\ req[r].savedDoc.deviceId = "esp32-1"
        /\ req[q].storage = "pending"

\* once a request has succeeded at storage, the number of its records
RecordCount(r) == Cardinality(RecordsOf(r))

\* C9 as stated: every upload whose storage call succeeded results in exactly
\* one record, never zero and never two, and the set of records only grows.
C9_Original ==
    /\ [](\A r \in Requests : Done(r) /\ req[r].storage = "ok" => RecordCount(r) = 1)
    /\ [][store \subseteq store']_vars

\* C9 amended: every upload whose storage call succeeded results in at most one
\* record: exactly one once its metadata save has succeeded, none when the save
\* failed; no handler updates or deletes a record, so the set only grows.
C9_AtMostOneRecord ==
    /\ [](\A r \in Requests :
            req[r].storage = "ok" =>
                RecordCount(r) = IF req[r].save = "ok" THEN 1 ELSE 0)
    /\ [](Cardinality(store) = Cardinality({r \in Requests : req[r].save = "ok"}))
    /\ [][store \subseteq store']_vars

C9_Witness ==
    \E r, q \in Requests :
        /\ Done(r) /\ req[r].storage = "ok" /\ req[r].save = "failed" /\ RecordCount(r) = 0
        /\ Done(q) /\ req[q].storage = "ok" /\ RecordCount(q) = 1
        /\ list.status = 200

\* the steps of a request are taken in order, none is pending once it is
\* answered, it is answered once, and a failure is swallowed or answered 500
Handled(r, statuses) ==
    /\ Len(req[r].responses) <= 1
    /\ Done(r) <=> Len(req[r].responses) = 1
    /\ req[r].save # "none" => req[r].storage = "ok"
    /\ req[r].notify # "none" => req[r].save \in {"ok", "failed"}
    /\ Done(r) =>
        /\ Status(r) \in statuses
        /\ "pending" \notin {req[r].storage, req[r].save, req[r].notify}
        /\ req[r].storage = "failed" => Status(r) = 500 /\ "error" \in DOMAIN Body(r)
        /\ req[r].storage = "ok" => Status(r) = 200

====
